---------------------------- MODULE Spec2Model ----------------------------
(***************************************************************************)
(* A model of wordreorder.py: the structure extractor                      *)
(* (is_heading_style, parse_document_structure), the outline builder       *)
(* (build_nested_toc), the outline loader (load_toc_config_for_reorganize  *)
(* with its inner extract_headings) and the two command handlers           *)
(* (run_generate, run_reorganize).                                         *)
(*                                                                         *)
(* Strings are sequences of tokens: the token " " is one blank, every      *)
(* other token is a run of non-blank characters.  So str.strip, str.split  *)
(* and str.startswith are computed, not assumed.  Body elements are named  *)
(* by their position in the document body (Python object identity).       *)
(* The document library is outside the program: Document(path) yields the  *)
(* body sequence or fails, Document() yields an empty body, deepcopy       *)
(* yields the element it is given, save succeeds or fails.                 *)
(***************************************************************************)
EXTENDS Integers, Sequences, FiniteSets, TLC

VARIABLES
    pc,                 \* position of the command handler
    body,               \* document.element.body of the source document
    doc_ok,             \* whether Document(doc_path) opens
    max_level,          \* args.max_level
    include_elements,   \* the include_elements argument of the extractor
    sections,           \* value returned by parse_document_structure (or NoSections)
    flat_sections,      \* argument of build_nested_toc
    nested_toc,         \* value returned by build_nested_toc
    yaml_data,          \* the outline file: what run_generate dumps
    config,             \* the outline file read by reorganize: yaml.safe_load(f)
    flat_headings,      \* target_toc_headings / extract_headings' result
    unmatched,          \* args.unmatched
    missing,            \* args.missing
    save_ok,            \* whether new_document.save succeeds
    plan,               \* run_reorganize's locals once the order is planned
    new_document,       \* body of the output document, or NoDoc before Document()
    saved,              \* whether the output document was saved
    result              \* the handler's return value: "none", "True", "False"

vars == << pc, body, doc_ok, max_level, include_elements, sections,
           flat_sections, nested_toc, yaml_data, config, flat_headings,
           unmatched, missing, save_ok, plan, new_document, saved, result >>

-----------------------------------------------------------------------------
(* Bounds of the model *)

MaxBody == 3        \* longest document body of the extractor's specification
MaxFlat == 4        \* longest flat heading list of the outline specification
MaxLvl == 3         \* deepest heading level of the outline specification
MaxDoc == 3         \* longest document body of the reorganize specification
MaxToc == 2         \* longest top-level 'toc' list of the reorganize specification

-----------------------------------------------------------------------------
(* Strings *)

Last(s) == s[Len(s)]
Front(s) == SubSeq(s, 1, Len(s) - 1)

RECURSIVE LStrip(_)
LStrip(s) == IF s # << >> /\ Head(s) = " " THEN LStrip(Tail(s)) ELSE s

RECURSIVE RStrip(_)
RStrip(s) == IF s # << >> /\ Last(s) = " " THEN RStrip(Front(s)) ELSE s

\* str.strip()
Strip(s) == RStrip(LStrip(s))

\* str.lower(), on the tokens the style names of the model are made of
LowerTok(t) ==
    CASE t = "Heading" -> "heading"
      [] t = "HEADING" -> "heading"
      [] t = "Normal" -> "normal"
      [] t = "Title" -> "title"
      [] OTHER -> t

Lower(s) == [i \in 1..Len(s) |-> LowerTok(s[i])]

\* s.startswith("heading ")
StartsWithHeading(s) == Len(s) >= 2 /\ s[1] = "heading" /\ s[2] = " "

\* s.split(" ")[-1]: what follows the last blank ("" when s ends in a blank)
LastField(s) == IF s = << >> \/ Last(s) = " " THEN "" ELSE Last(s)

NotInt == -999      \* int(tok) raising ValueError

\* int(tok)
ParseInt(tok) ==
    CASE tok = "-1" -> -1
      [] tok = "0" -> 0
      [] tok = "1" -> 1
      [] tok = "2" -> 2
      [] tok = "3" -> 3
      [] tok = "4" -> 4
      [] tok = "5" -> 5
      [] tok = "6" -> 6
      [] tok = "7" -> 7
      [] OTHER -> NotInt

PREAMBLE == << "__PREAMBLE__" >>

-----------------------------------------------------------------------------
(* Structure extractor *)

NoLevel == -1       \* the (None, None) result of is_heading_style

\* is_heading_style with the range test written "level < max_level"
is_heading_style_exclusive(paragraph, maxlvl) ==
    IF paragraph.style = << >>
    THEN NoLevel
    ELSE IF StartsWithHeading(Lower(Strip(paragraph.style)))
         THEN LET level == ParseInt(LastField(paragraph.style))
              IN  IF level # NotInt /\ 1 <= level /\ level < maxlvl
                  THEN level
                  ELSE NoLevel
         ELSE NoLevel

\* is_heading_style(paragraph, max_level): the level, or NoLevel.  A
\* paragraph's style name is a token sequence; << >> is a missing style name.
is_heading_style(paragraph, maxlvl) ==
    IF paragraph.style = << >>
    THEN NoLevel
    ELSE IF StartsWithHeading(Lower(Strip(paragraph.style)))
         THEN LET level == ParseInt(LastField(paragraph.style))
              IN  IF level # NotInt /\ 1 <= level /\ level <= maxlvl
                  THEN level
                  ELSE NoLevel
         ELSE NoLevel

NoElements == << 0 >>   \* the None stored for 'elements' without element capture

Section(info, elems, incl) ==
    [text |-> Strip(info.text), level |-> info.level,
     elements |-> IF incl THEN elems ELSE NoElements]

\* the condition of lines 54 and 66: the accumulator is worth a section
Closes(info, elems, incl) == info.level > 0 \/ (incl /\ elems # << >>)

\* one iteration of the loop over document.element.body
ScanStep(st, b, i, maxlvl, incl) ==
    LET element == b[i]
        level == IF element.tag = "p"
                 THEN is_heading_style(element, maxlvl)
                 ELSE NoLevel
    IN  IF level # NoLevel
        THEN [secs |-> IF Closes(st.info, st.elems, incl)
                       THEN Append(st.secs, Section(st.info, st.elems, incl))
                       ELSE st.secs,
              info |-> [text |-> element.text, level |-> level],
              elems |-> IF incl THEN << i >> ELSE << >>]
        ELSE [st EXCEPT !.elems = IF incl THEN Append(@, i) ELSE @]

RECURSIVE ScanBody(_, _, _, _, _)
ScanBody(st, b, i, maxlvl, incl) ==
    IF i > Len(b)
    THEN st
    ELSE ScanBody(ScanStep(st, b, i, maxlvl, incl), b, i + 1, maxlvl, incl)

\* parse_document_structure(doc_path, max_level, include_elements), for a
\* document that opens: the list of sections
parse_document_structure(b, maxlvl, incl) ==
    LET st == ScanBody([secs |-> << >>,
                        info |-> [text |-> PREAMBLE, level |-> 0],
                        elems |-> << >>], b, 1, maxlvl, incl)
        secs == IF Closes(st.info, st.elems, incl)
                THEN Append(st.secs, Section(st.info, st.elems, incl))
                ELSE st.secs
    IN  IF incl /\ secs # << >> /\ secs[1].text = PREAMBLE
           /\ secs[1].elements = << >>
        THEN Tail(secs)
        ELSE secs

NoSections == << [tag |-> "none"] >>   \* the None returned for a document that fails to open

NoDoc == << -1 >>     \* no output document yet: new_document before Document()


-----------------------------------------------------------------------------
(* Python values of the outline: a list item is tagged with its type, as
   isinstance sees it; a dict is a function on its keys *)

PyStr(t) == [type |-> "str", val |-> t]
PyDict(d) == [type |-> "dict", val |-> d]
PyList(l) == [type |-> "list", val |-> l]
PyOther == [type |-> "other", val |-> << >>]

-----------------------------------------------------------------------------
(* Outline builder.  The dicts and lists build_nested_toc shares by reference
   live in a heap: node n is nodes[n]; a stack entry holds a level and the
   list it refers to, which is either the one-element list [node] made for a
   root (fresh) or the 'children' list of a node. *)

\* list[-1] for the list a stack entry refers to
ListLast(nodes, ref) ==
    IF ref.fresh THEN ref.node ELSE Last(nodes[ref.node].children)

\* the pop loop written "stack[-1][0] > level"
RECURSIVE PopStackStrict(_, _)
PopStackStrict(stack, level) ==
    IF stack # << >> /\ Last(stack).level > level
    THEN PopStackStrict(Front(stack), level)
    ELSE stack

\* while stack and stack[-1][0] >= level: stack.pop()
RECURSIVE PopStack(_, _)
PopStack(stack, level) ==
    IF stack # << >> /\ Last(stack).level >= level
    THEN PopStack(Front(stack), level)
    ELSE stack

\* one iteration of the loop over flat_sections
BuildStep(h, section) ==
    IF section.level = 0
    THEN h
    ELSE
      LET level == section.level
          n == Len(h.nodes) + 1
          node == [heading |-> section.text, level |-> level,
                   haskey |-> TRUE, children |-> << >>]
          stack == PopStack(h.stack, level)
      IN  IF stack = << >>
          THEN [nodes |-> Append(h.nodes, node),
                roots |-> Append(h.roots, n),
                stack |-> << [level |-> level, fresh |-> TRUE, node |-> n] >>]
          ELSE
            LET p == ListLast(h.nodes, Last(stack))
                nodes1 == [Append(h.nodes, node) EXCEPT
                              ![p].haskey = TRUE,
                              ![p].children = Append(@, n)]
            IN  [nodes |-> nodes1,
                 roots |-> h.roots,
                 stack |-> Append(stack,
                              [level |-> level, fresh |-> FALSE,
                               node |-> ListLast(nodes1, Last(stack))])]

RECURSIVE BuildLoop(_, _)
BuildLoop(h, flat) ==
    IF flat = << >> THEN h ELSE BuildLoop(BuildStep(h, Head(flat)), Tail(flat))

\* cleanup_empty_children(node_list), on the heap
RECURSIVE cleanup_empty_children(_, _)
cleanup_empty_children(nodes, list) ==
    IF list = << >>
    THEN nodes
    ELSE
      LET n == Head(list)
          nodes1 == IF nodes[n].haskey /\ nodes[n].children # << >>
                    THEN cleanup_empty_children(nodes, nodes[n].children)
                    ELSE nodes
          nodes2 == IF nodes1[n].haskey /\ nodes1[n].children = << >>
                    THEN [nodes1 EXCEPT ![n].haskey = FALSE]
                    ELSE nodes1
      IN  cleanup_empty_children(nodes2, Tail(list))

\* the dict that node n is, with the dicts below it
RECURSIVE NodeDict(_, _)
NodeDict(nodes, n) ==
    LET kids == [i \in 1..Len(nodes[n].children) |->
                    NodeDict(nodes, nodes[n].children[i])]
    IN  IF nodes[n].haskey
        THEN PyDict([heading |-> nodes[n].heading, level |-> nodes[n].level,
                     children |-> PyList(kids)])
        ELSE PyDict([heading |-> nodes[n].heading, level |-> nodes[n].level])

\* build_nested_toc(flat_sections): the list nested_toc
build_nested_toc(flat) ==
    LET h == BuildLoop([nodes |-> << >>, roots |-> << >>, stack |-> << >>], flat)
        nodes == cleanup_empty_children(h.nodes, h.roots)
    IN  [i \in 1..Len(h.roots) |-> NodeDict(nodes, h.roots[i])]

-----------------------------------------------------------------------------
(* Outline loader *)

\* extract_headings appending a node's heading after its children's
RECURSIVE extract_headings_postorder(_)
extract_headings_postorder(node_list) ==
    IF node_list = << >>
    THEN << >>
    ELSE
      LET item == Head(node_list)
          here ==
            IF item.type = "str"
            THEN << item.val >>
            ELSE IF item.type = "dict" /\ "heading" \in DOMAIN item.val
                 THEN (IF "children" \in DOMAIN item.val
                          /\ item.val.children.type = "list"
                       THEN extract_headings_postorder(item.val.children.val)
                       ELSE << >>)
                      \o << item.val.heading >>
                 ELSE << >>
      IN  here \o extract_headings_postorder(Tail(node_list))

\* extract_headings(node_list): what it appends to flat_headings
RECURSIVE extract_headings(_)
extract_headings(node_list) ==
    IF node_list = << >>
    THEN << >>
    ELSE
      LET item == Head(node_list)
          here ==
            IF item.type = "str"
            THEN << item.val >>
            ELSE IF item.type = "dict" /\ "heading" \in DOMAIN item.val
                 THEN << item.val.heading >>
                      \o (IF "children" \in DOMAIN item.val
                             /\ item.val.children.type = "list"
                          THEN extract_headings(item.val.children.val)
                          ELSE << >>)
                 ELSE << >>
      IN  here \o extract_headings(Tail(node_list))

NoHeadings == << << "None" >> >>    \* the None load_toc_config_for_reorganize returns

\* load_toc_config_for_reorganize(toc_path), given what yaml.safe_load returns
\* (type "unreadable": open or the YAML parser raises)
load_toc_config_for_reorganize(cfg) ==
    IF cfg.type # "dict" \/ "toc" \notin DOMAIN cfg.val
    THEN NoHeadings
    ELSE IF cfg.val.toc.type # "list"
         THEN NoHeadings
         ELSE LET hs == extract_headings(cfg.val.toc.val)
              IN  IF hs = << >> THEN NoHeadings ELSE hs

-----------------------------------------------------------------------------
(* Values of the locals that a specification does not use *)

NoPlan ==
    [source_sections_map |-> << >>, preamble_section |-> << >>,
     missing_in_source |-> << >>, unmatched_in_source_headings |-> {},
     sections_to_write |-> << >>]

\* sequences over S of length at most n
SeqUpTo(S, n) == UNION { [1..k -> S] : k \in 0..n }

-----------------------------------------------------------------------------
(* The extractor on its own: parse_document_structure applied to a document *)

Para(style, text) == [tag |-> "p", style |-> style, text |-> text]

\* style names a paragraph of the model may carry
Styles ==
    { << "Normal" >>,
      << "Heading", " ", "1" >>, << "heading", " ", "2" >>,
      << "Heading", " ", "3" >>, << "Heading", " ", "7" >>,
      << "Heading", " ", "0" >>, << "Heading", " ", "x" >>,
      << "Heading", " ", "1", " " >>,
      << >> }

ParseElements ==
    { [tag |-> "tbl", style |-> << >>, text |-> << >>],
      [tag |-> "sectPr", style |-> << >>, text |-> << >>] }
    \cup { Para(s, << "A" >>) : s \in Styles }
    \cup { Para(<< "Heading", " ", "1" >>, << " ", "B", " " >>) }

MaxLevels == { 1, 2, 6 }

InitParse ==
    /\ pc = "start" /\ result = "none"
    /\ doc_ok \in BOOLEAN
    /\ body \in IF doc_ok THEN SeqUpTo(ParseElements, MaxBody) ELSE { << >> }
    /\ max_level \in MaxLevels
    /\ include_elements \in BOOLEAN
    /\ sections = << >>
    /\ flat_sections = << >> /\ nested_toc = << >> /\ yaml_data = << >>
    /\ config = << >> /\ flat_headings = << >>
    /\ unmatched = "append" /\ missing = "warn" /\ save_ok = TRUE
    /\ plan = NoPlan /\ new_document = NoDoc /\ saved = FALSE

\* parse_document_structure on a document that opens
ParseDocument ==
    /\ pc = "start" /\ doc_ok
    /\ sections' = parse_document_structure(body, max_level, include_elements)
    /\ pc' = "parsed"
    /\ UNCHANGED << body, doc_ok, max_level, include_elements, flat_sections,
                    nested_toc, yaml_data, config, flat_headings, unmatched,
                    missing, save_ok, plan, new_document, saved, result >>

\* parse_document_structure on a document that Document() cannot open
ParseFails ==
    /\ pc = "start" /\ ~doc_ok
    /\ sections' = NoSections
    /\ pc' = "noparse"
    /\ UNCHANGED << body, doc_ok, max_level, include_elements, flat_sections,
                    nested_toc, yaml_data, config, flat_headings, unmatched,
                    missing, save_ok, plan, new_document, saved, result >>

NextParse == ParseDocument \/ ParseFails

SpecParse == InitParse /\ [][NextParse]_vars

-----------------------------------------------------------------------------
(* C10 *)

\* a paragraph whose style is "Heading n" with 1 <= n <= max_level: the name
\* begins with "heading " (case ignored) and its trailing token is the numeral n
HeadingAt(i) ==
    /\ body[i].tag = "p"
    /\ body[i].style # << >>
    /\ LET name == body[i].style
           low == Lower(Strip(name))
       IN  /\ Len(low) >= 2 /\ low[1] = "heading" /\ low[2] = " "
           /\ \E n \in 1..max_level : name[Len(name)] = ToString(n)

RECURSIVE Concat(_)
Concat(ss) == IF ss = << >> THEN << >> ELSE Head(ss).elements \o Concat(Tail(ss))

\* C10: with element capture, the sections' element lists concatenated are the
\* body in document order; the sections of level > 0 are exactly the ones that
\* start at a paragraph styled "Heading n", 1 <= n <= max_level, one per such
\* paragraph; every other element (a paragraph with an unparsable or
\* out-of-range heading style included) is inside the section open at that point.
C10_Partition ==
    (pc = "parsed" /\ include_elements) =>
        /\ Concat(sections) = [i \in 1..Len(body) |-> i]
        /\ \A k \in 1..Len(sections) :
              /\ sections[k].elements # << >>
              /\ (sections[k].level > 0 <=> HeadingAt(sections[k].elements[1]))
              /\ sections[k].level = 0 => k = 1
              /\ \A j \in 2..Len(sections[k].elements) :
                    ~HeadingAt(sections[k].elements[j])
        /\ Cardinality({ k \in 1..Len(sections) : sections[k].level > 0 })
              = Cardinality({ i \in 1..Len(body) : HeadingAt(i) })

\* a heading section that swallowed a paragraph with an out-of-range or
\* unparsable heading style, after a preamble
C10_Witness ==
    /\ pc = "parsed" /\ include_elements
    /\ Len(sections) >= 2
    /\ sections[1].level = 0
    /\ \E k \in 2..Len(sections) : \E j \in 2..Len(sections[k].elements) :
          LET e == body[sections[k].elements[j]]
          IN  e.tag = "p" /\ e.style # << >> /\ e.style[1] = "Heading"

-----------------------------------------------------------------------------
(* The outline pipeline: build_nested_toc applied to a flat section list, the
   result dumped by run_generate and read back by the loader *)

TextA == << "A" >>
TextB == << "B" >>
TextC == << "C" >>

FlatHeadings ==
    { [text |-> t, level |-> l, elements |-> NoElements] :
         t \in { TextA, TextB }, l \in 1..MaxLvl }

FlatPreamble == [text |-> PREAMBLE, level |-> 0, elements |-> NoElements]

InitGen ==
    /\ pc = "start" /\ result = "none"
    /\ flat_sections \in
          { pre \o hs : pre \in { << >>, << FlatPreamble >> },
                        hs \in SeqUpTo(FlatHeadings, MaxFlat) }
    /\ save_ok = TRUE
    /\ body = << >> /\ doc_ok = TRUE /\ max_level = 6
    /\ include_elements = FALSE /\ sections = flat_sections
    /\ nested_toc = << >> /\ yaml_data = << >>
    /\ config = << >> /\ flat_headings = << >>
    /\ unmatched = "append" /\ missing = "warn"
    /\ plan = NoPlan /\ new_document = NoDoc /\ saved = FALSE

\* run_generate, line 161
GenerateBuild ==
    /\ pc = "start"
    /\ nested_toc' = build_nested_toc(flat_sections)
    /\ pc' = "built"
    /\ UNCHANGED << body, doc_ok, max_level, include_elements, sections,
                    flat_sections, yaml_data, config, flat_headings, unmatched,
                    missing, save_ok, plan, new_document, saved, result >>

\* run_generate, lines 162-173: the dump succeeds or raises
GenerateDump ==
    /\ pc = "built"
    /\ save_ok' \in BOOLEAN
    /\ IF save_ok'
       THEN /\ yaml_data' = PyDict([toc |-> PyList(nested_toc)])
            /\ result' = "True"
            /\ pc' = "dumped"
       ELSE /\ yaml_data' = yaml_data
            /\ result' = "False"
            /\ pc' = "failed"
    /\ UNCHANGED << body, doc_ok, max_level, include_elements, sections,
                    flat_sections, nested_toc, config, flat_headings, unmatched,
                    missing, plan, new_document, saved >>

\* load_toc_config_for_reorganize on the file run_generate wrote
LoadGenerated ==
    /\ pc = "dumped"
    /\ config' = yaml_data
    /\ flat_headings' = load_toc_config_for_reorganize(yaml_data)
    /\ pc' = "loaded"
    /\ UNCHANGED << body, doc_ok, max_level, include_elements, sections,
                    flat_sections, nested_toc, yaml_data, unmatched, missing,
                    save_ok, plan, new_document, saved, result >>

NextGen == GenerateBuild \/ GenerateDump \/ LoadGenerated

SpecGen == InitGen /\ [][NextGen]_vars

-----------------------------------------------------------------------------
(* C5, C6, C7 *)

\* the headings of the flat list: its entries of level > 0
Heads == SelectSeq(flat_sections, LAMBDA x : x.level > 0)

HeadTexts == [i \in 1..Len(Heads) |-> Heads[i].text]

\* C5: flattening the forest built from a flat list gives back the list's
\* heading texts in order, the level-0 preamble entry left out; and the loader
\* returns that list for the dumped file whenever the list is not empty.
C5_RoundTrip ==
    /\ pc = "built" => extract_headings(nested_toc) = HeadTexts
    /\ (pc = "loaded" /\ HeadTexts # << >>) => flat_headings = HeadTexts

\* a list with a preamble entry, a first heading deeper than level 1, a level
\* jump and a repeated text, read back
C5_Witness ==
    /\ pc = "loaded"
    /\ Len(flat_sections) >= 4
    /\ flat_sections[1].level = 0
    /\ flat_sections[2].level >= 2
    /\ \E i \in 2..(Len(flat_sections) - 1) :
          flat_sections[i + 1].level >= flat_sections[i].level + 2
    /\ \E i, j \in 2..Len(flat_sections) :
          i # j /\ flat_sections[i].text = flat_sections[j].text
    /\ flat_headings = HeadTexts

RECURSIVE OnlyHeadingAndChildren(_)
OnlyHeadingAndChildren(node_list) ==
    \A i \in 1..Len(node_list) :
       LET d == node_list[i].val
       IN  /\ DOMAIN d \subseteq { "heading", "children" }
           /\ "heading" \in DOMAIN d
           /\ "children" \in DOMAIN d =>
                 /\ d.children.val # << >>
                 /\ OnlyHeadingAndChildren(d.children.val)

\* C6: in the outline run_generate dumps, every node at every depth holds its
\* heading and, when it has children, its children list, and nothing else (no
\* level field).
C6_NoLevelField ==
    pc \in { "dumped", "loaded" } => OnlyHeadingAndChildren(yaml_data.val.toc.val)

\* the outline-stack parent of the i-th heading: the nearest earlier heading of
\* a smaller level (0 when there is none)
ParentOf(i) ==
    LET above == { j \in 1..(i - 1) : Heads[j].level < Heads[i].level }
    IN  IF above = {} THEN 0 ELSE CHOOSE j \in above : \A k \in above : k <= j

SetToSortedSeq(S) ==
    LET n == Cardinality(S)
    IN  [k \in 1..n |-> CHOOSE x \in S : Cardinality({ y \in S : y < x }) = k - 1]

ChildrenOf(i) == SetToSortedSeq({ c \in 1..Len(Heads) : ParentOf(c) = i })

\* the forest the claim describes, as (heading, has a children key, children)
RECURSIVE ExpectedNode(_)
ExpectedNode(i) ==
    LET kids == ChildrenOf(i)
    IN  [heading |-> Heads[i].text,
         haskey |-> kids # << >>,
         children |-> [k \in 1..Len(kids) |-> ExpectedNode(kids[k])]]

RECURSIVE ShapeOf(_)
ShapeOf(item) ==
    LET kids == IF "children" \in DOMAIN item.val
                THEN item.val.children.val
                ELSE << >>
    IN  [heading |-> item.val.heading,
         haskey |-> "children" \in DOMAIN item.val,
         children |-> [k \in 1..Len(kids) |-> ShapeOf(kids[k])]]

\* C7: every heading hangs, as the last child so far, under its outline-stack
\* parent, or is a root when it has none; siblings keep the input order; a
\* node has a children key exactly when it has a child.
C7_OutlineForest ==
    pc = "built" =>
        [k \in 1..Len(nested_toc) |-> ShapeOf(nested_toc[k])]
           = LET top == ChildrenOf(0)
             IN  [k \in 1..Len(top) |-> ExpectedNode(top[k])]

\* a heading attached under a parent that is not its predecessor, after the
\* stack was popped, and a later root
C7_Witness ==
    /\ pc = "built"
    /\ \E i \in 1..Len(Heads) : ParentOf(i) # 0 /\ ParentOf(i) # i - 1
    /\ \E i \in 2..Len(Heads) : ParentOf(i) = 0 /\ ParentOf(i - 1) # 0
    /\ Len(nested_toc) >= 2

-----------------------------------------------------------------------------
(* run_reorganize *)

\* the loop of lines 191-203 over source_sections_data.  The dict
\* source_sections_map is the sequence of its values in insertion order; its
\* keys are their texts.  preamble_section is << >> for None.
MapStep(st, section) ==
    IF section.text = PREAMBLE
    THEN [st EXCEPT !.preamble_section = << section >>]
    ELSE IF section.text \in st.headings_seen
            /\ section.text \notin st.duplicate_headings
         THEN [st EXCEPT !.duplicate_headings = @ \cup { section.text }]
         ELSE IF section.text \notin st.headings_seen
              THEN [st EXCEPT !.source_sections_map = Append(@, section),
                              !.headings_seen = @ \cup { section.text }]
              ELSE st

RECURSIVE MapLoop(_, _)
MapLoop(st, secs) ==
    IF secs = << >> THEN st ELSE MapLoop(MapStep(st, Head(secs)), Tail(secs))

BuildSourceMap(secs) ==
    MapLoop([source_sections_map |-> << >>, duplicate_headings |-> {},
             headings_seen |-> {}, preamble_section |-> << >>], secs)

Keys(map) == { map[i].text : i \in 1..Len(map) }

\* source_sections_map[h]
MapGet(map, h) == map[CHOOSE i \in 1..Len(map) : map[i].text = h]

\* lines 210-214
MissingInSource(T, map) == SelectSeq(T, LAMBDA h : h \notin Keys(map))

\* line 216: a set, so without an order
UnmatchedInSource(T, map) == Keys(map) \ { T[i] : i \in 1..Len(T) }

\* the orders in which "for heading in unmatched_in_source_headings" (line
\* 239) may visit a set of strings: Python fixes none
IterationOrders(S) ==
    { f \in [1..Cardinality(S) -> S] : \A x \in S : \E i \in DOMAIN f : f[i] = x }

\* lines 226-240, for one iteration order of the set
UnmatchedToAppend(map, order, policy) ==
    IF order # << >> /\ policy # "delete"
    THEN [i \in 1..Len(order) |-> MapGet(map, order[i])]
    ELSE << >>

\* lines 246-255: the sections the target list schedules
RECURSIVE ScheduleTargets(_, _, _)
ScheduleTargets(T, map, processed) ==
    IF T = << >>
    THEN << >>
    ELSE IF Head(T) \in Keys(map) /\ Head(T) \notin processed
         THEN << MapGet(map, Head(T)) >>
              \o ScheduleTargets(Tail(T), map, processed \cup { Head(T) })
         ELSE ScheduleTargets(Tail(T), map, processed)

\* lines 242-259
SectionsToWrite(T, map, pre, to_append) ==
    (IF pre # << >> /\ pre[1].elements # << >> THEN pre ELSE << >>)
    \o ScheduleTargets(T, map, {})
    \o to_append

\* lines 268-291: the body of the new document after the copy loop
RECURSIVE CopyElements(_)
CopyElements(secs) ==
    IF secs = << >> THEN << >> ELSE Head(secs).elements \o CopyElements(Tail(secs))

DocSentinelHeading == Para(<< "Heading", " ", "1" >>, PREAMBLE)

DocElements ==
    { Para(<< "Normal" >>, << "x" >>),
      Para(<< "Heading", " ", "1" >>, TextA),
      Para(<< "Heading", " ", "1" >>, << " ", "A" >>),
      Para(<< "Heading", " ", "2" >>, TextB),
      Para(<< "Heading", " ", "1" >>, TextC),
      DocSentinelHeading }

TocItems ==
    { PyStr(TextA), PyStr(TextB), PyStr(PREAMBLE),
      PyDict([heading |-> TextB, children |-> PyList(<< PyStr(TextA) >>)]),
      PyOther }

\* outline files the loader rejects: unreadable, not a mapping, no 'toc' key,
\* a 'toc' that is not a list
BadConfigs ==
    { [type |-> "unreadable", val |-> << >>],
      PyList(<< >>),
      PyDict([title |-> PyStr(TextA)]),
      PyDict([toc |-> PyStr(TextA)]) }

Policies == { "append", "delete", "warn" }
MissingPolicies == { "error", "warn", "ignore" }

InitReorg ==
    /\ pc = "start" /\ result = "none"
    /\ config \in BadConfigs
          \cup { PyDict([toc |-> PyList(l)]) : l \in SeqUpTo(TocItems, MaxToc) }
    /\ doc_ok \in BOOLEAN
    /\ body \in IF doc_ok /\ config \notin BadConfigs
                THEN SeqUpTo(DocElements, MaxDoc)
                ELSE { << >> }
    /\ unmatched \in Policies
    /\ missing \in MissingPolicies
    /\ max_level = 6 /\ include_elements = TRUE /\ save_ok = TRUE
    /\ sections = << >> /\ flat_sections = << >>
    /\ nested_toc = << >> /\ yaml_data = << >> /\ flat_headings = << >>
    /\ plan = NoPlan /\ new_document = NoDoc /\ saved = FALSE

\* lines 178-181
ReorgLoadToc ==
    /\ pc = "start"
    /\ flat_headings' = load_toc_config_for_reorganize(config)
    /\ IF flat_headings' = NoHeadings
       THEN pc' = "toc_failed" /\ result' = "False"
       ELSE pc' = "toc_loaded" /\ result' = result
    /\ UNCHANGED << body, doc_ok, max_level, include_elements, sections,
                    flat_sections, nested_toc, yaml_data, config, unmatched,
                    missing, save_ok, plan, new_document, saved >>

\* lines 183-185
ReorgParse ==
    /\ pc = "toc_loaded"
    /\ IF doc_ok
       THEN /\ sections' = parse_document_structure(body, max_level, TRUE)
            /\ pc' = "parsed" /\ result' = result
       ELSE /\ sections' = NoSections
            /\ pc' = "parse_failed" /\ result' = "False"
    /\ UNCHANGED << body, doc_ok, max_level, include_elements, flat_sections,
                    nested_toc, yaml_data, config, flat_headings, unmatched,
                    missing, save_ok, plan, new_document, saved >>

\* lines 187-259: the section map, the comparison with the target list, the
\* missing policy and the writing order
ReorgPlan ==
    /\ pc = "parsed"
    /\ LET st == BuildSourceMap(sections)
           map == st.source_sections_map
           miss == MissingInSource(flat_headings, map)
           unm == UnmatchedInSource(flat_headings, map)
       IN  IF miss # << >> /\ missing = "error"
           THEN /\ plan' = [source_sections_map |-> map,
                            preamble_section |-> st.preamble_section,
                            missing_in_source |-> miss,
                            unmatched_in_source_headings |-> unm,
                            sections_to_write |-> << >>]
                /\ pc' = "aborted" /\ result' = "False"
           ELSE /\ \E order \in IterationOrders(unm) :
                      plan' = [source_sections_map |-> map,
                               preamble_section |-> st.preamble_section,
                               missing_in_source |-> miss,
                               unmatched_in_source_headings |-> unm,
                               sections_to_write |->
                                  SectionsToWrite(flat_headings, map,
                                     st.preamble_section,
                                     UnmatchedToAppend(map, order, unmatched))]
                /\ pc' = "planned" /\ result' = result
    /\ UNCHANGED << body, doc_ok, max_level, include_elements, sections,
                    flat_sections, nested_toc, yaml_data, config, flat_headings,
                    unmatched, missing, save_ok, new_document, saved >>

\* lines 265-303: Document(), the copy loop, save
ReorgWrite ==
    /\ pc = "planned"
    /\ new_document' = CopyElements(plan.sections_to_write)
    /\ save_ok' \in BOOLEAN
    /\ saved' = save_ok'
    /\ result' = IF save_ok' THEN "True" ELSE "False"
    /\ pc' = "written"
    /\ UNCHANGED << body, doc_ok, max_level, include_elements, sections,
                    flat_sections, nested_toc, yaml_data, config, flat_headings,
                    unmatched, missing, plan >>

NextReorg == ReorgLoadToc \/ ReorgParse \/ ReorgPlan \/ ReorgWrite

SpecReorg == InitReorg /\ [][NextReorg]_vars

-----------------------------------------------------------------------------
(* What the claims about run_reorganize speak of *)

Reconciled == pc \in { "aborted", "planned", "written" }
Planned == pc \in { "planned", "written" }

T == flat_headings
InT(h) == \E i \in 1..Len(T) : T[i] = h

\* the first of the heading sections of the source that carry their text
IsFirstOccurrence(k) ==
    /\ sections[k].level > 0
    /\ \A j \in 1..(k - 1) :
          sections[j].level > 0 => sections[j].text # sections[k].text

SectionsAt(idx) ==
    LET q == SetToSortedSeq(idx) IN [i \in 1..Len(q) |-> sections[q[i]]]

Range(f) == { f[i] : i \in DOMAIN f }

\* source sections, first occurrences, whose heading the target list lacks
UnmatchedInSourceOrder ==
    SectionsAt({ k \in 1..Len(sections) :
                    IsFirstOccurrence(k) /\ ~InT(sections[k].text) })

\* the headings of T, each at its first position, that head a source section,
\* and those sections in that order
MatchedInTargetOrder ==
    LET pos == { i \in 1..Len(T) :
                    /\ \A j \in 1..(i - 1) : T[j] # T[i]
                    /\ \E k \in 1..Len(sections) :
                          IsFirstOccurrence(k) /\ sections[k].text = T[i] }
        q == SetToSortedSeq(pos)
    IN  [i \in 1..Len(q) |->
            sections[CHOOSE k \in 1..Len(sections) :
                        IsFirstOccurrence(k) /\ sections[k].text = T[q[i]]]]

\* the section of the content before the first heading, when there is one
SourcePreamble ==
    IF sections # << >> /\ sections[1].level = 0 THEN << sections[1] >> ELSE << >>

\* no heading of the source reads "__PREAMBLE__"
NoMarkerHeading ==
    \A k \in 1..Len(sections) : sections[k].level > 0 => sections[k].text # PREAMBLE

-----------------------------------------------------------------------------
(* C1 *)

UnmatchedLast ==
    LET stw == plan.sections_to_write
        n == Len(stw) - Len(UnmatchedInSourceOrder)
    IN  /\ n >= 0
        /\ SubSeq(stw, n + 1, Len(stw)) = UnmatchedInSourceOrder
        /\ \A j \in 1..n : stw[j] \notin Range(UnmatchedInSourceOrder)

\* C1: under --unmatched append or warn the source sections whose heading is
\* not in the target list end the list of sections to write, after every
\* other section, in source document order.
C1_UnmatchedInSourceOrder ==
    (Planned /\ unmatched \in { "append", "warn" }) => UnmatchedLast

-----------------------------------------------------------------------------
(* C2 *)

\* C2: when a target heading is absent from the source section map, --missing
\* error makes run_reorganize return failure with no output document created
\* or saved, whatever --unmatched is; --missing warn or ignore never aborts
\* and the list of sections to write holds no section headed by a missing
\* heading.
C2_MissingPolicy ==
    (Reconciled /\ plan.missing_in_source # << >>) =>
        IF missing = "error"
        THEN pc = "aborted" /\ result = "False" /\ new_document = NoDoc /\ ~saved
        ELSE /\ pc # "aborted"
             /\ \A i \in 1..Len(plan.sections_to_write) :
                   LET s == plan.sections_to_write[i]
                   IN  s.level > 0 => s.text \notin Range(plan.missing_in_source)

-----------------------------------------------------------------------------
(* C3 *)

\* C3: a heading text that occurs more than once in the source is mapped to
\* its first occurrence, and no later occurrence is in the list of sections to
\* write or has an element in the output, under every pair of policies.
C3_FirstOccurrenceOnly ==
    Reconciled =>
        \A k \in 1..Len(sections) : \A j \in (k + 1)..Len(sections) :
            (IsFirstOccurrence(k) /\ sections[j].level > 0
                /\ sections[j].text = sections[k].text) =>
                /\ sections[k].text \in Keys(plan.source_sections_map)
                /\ MapGet(plan.source_sections_map, sections[k].text) = sections[k]
                /\ sections[j] \notin Range(plan.sections_to_write)
                /\ pc = "written" =>
                      Range(sections[j].elements) \cap Range(new_document) = {}

-----------------------------------------------------------------------------
(* C4 *)

\* the elements before the first paragraph with an in-range heading style
BeforeFirstHeading ==
    LET heads == { i \in 1..Len(body) : HeadingAt(i) }
        first == IF heads = {} THEN Len(body) + 1
                 ELSE CHOOSE i \in heads : \A j \in heads : i <= j
    IN  [i \in 1..(first - 1) |-> i]

IsPreambleSection(s) == s.level = 0 /\ s.text = PREAMBLE

\* C4: when run_reorganize does not abort, the elements before the first
\* heading, if any, open the list of sections to write and the output
\* document, in order; if there are none, no preamble section is among the
\* extracted sections or the sections to write.
C4_PreambleFirst ==
    Planned =>
        IF BeforeFirstHeading # << >>
        THEN /\ plan.sections_to_write # << >>
             /\ plan.sections_to_write[1].elements = BeforeFirstHeading
             /\ pc = "written" =>
                   SubSeq(new_document, 1, Len(BeforeFirstHeading))
                      = BeforeFirstHeading
        ELSE /\ \A i \in 1..Len(sections) : ~IsPreambleSection(sections[i])
             /\ \A i \in 1..Len(plan.sections_to_write) :
                   ~IsPreambleSection(plan.sections_to_write[i])

-----------------------------------------------------------------------------
(* C8 *)

\* C8: the list of sections to write is the optional preamble, then the
\* sections the target list matches, ordered by the first position of their
\* heading in the target list, then sections it does not match; no section
\* is in the list twice.
C8_TargetOrder ==
    Planned =>
        LET stw == plan.sections_to_write
            a == Len(SourcePreamble)
            b == a + Len(MatchedInTargetOrder)
        IN  /\ Len(stw) >= b
            /\ SubSeq(stw, 1, a) = SourcePreamble
            /\ SubSeq(stw, a + 1, b) = MatchedInTargetOrder
            /\ \A j \in (b + 1)..Len(stw) : stw[j] \notin Range(MatchedInTargetOrder)
            /\ \A i, j \in 1..Len(stw) : i # j => stw[i] # stw[j]

-----------------------------------------------------------------------------
(* C9 *)

HeadingSections == SelectSeq(sections, LAMBDA x : x.level > 0)

\* the source's heading texts are pairwise distinct and the target list is
\* the source's own heading sequence
IdentityTarget ==
    /\ \A i, j \in 1..Len(HeadingSections) :
          i # j => HeadingSections[i].text # HeadingSections[j].text
    /\ T = [i \in 1..Len(HeadingSections) |-> HeadingSections[i].text]

\* C9: with pairwise distinct source headings and the source's own heading
\* sequence as target, under every pair of policies, the list of sections to
\* write is the extracted section list, and nothing is missing or unmatched.
C9_Identity ==
    (Reconciled /\ IdentityTarget) =>
        /\ Planned
        /\ plan.sections_to_write = sections
        /\ plan.missing_in_source = << >>
        /\ plan.unmatched_in_source_headings = {}

-----------------------------------------------------------------------------
(* The same statements for sources none of whose headings reads
   "__PREAMBLE__" *)

\* C2 where no source heading is the preamble marker
C2_WithoutMarkerHeading == (Reconciled /\ NoMarkerHeading) => C2_MissingPolicy

\* C3 where no source heading is the preamble marker
C3_WithoutMarkerHeading == (Reconciled /\ NoMarkerHeading) => C3_FirstOccurrenceOnly

\* C4 where no source heading is the preamble marker
C4_WithoutMarkerHeading == (Reconciled /\ NoMarkerHeading) => C4_PreambleFirst

\* C8 where no source heading is the preamble marker
C8_WithoutMarkerHeading == (Reconciled /\ NoMarkerHeading) => C8_TargetOrder

\* C9 where no source heading is the preamble marker
C9_WithoutMarkerHeading == (Reconciled /\ NoMarkerHeading) => C9_Identity

\* C1 where no source heading is the preamble marker: this one does not hold
\* either, the order of the appended sections being that of a set
C1_WithoutMarkerHeading ==
    (Reconciled /\ NoMarkerHeading) => C1_UnmatchedInSourceOrder

=============================================================================
